---------------------------- MODULE Spec2Model ----------------------------
(***************************************************************************)
(* A model of pages_converter.PagesConverter                               *)
(* (src/pages_converter/__init__.py).                                      *)
(*                                                                         *)
(* Two specifications share the module:                                    *)
(*   SpecXml  the pure conversions _text_to_pages_xml and                  *)
(*            _markdown_to_pages_xml, applied to inputs drawn from         *)
(*            bounded sets of texts;                                       *)
(*   Spec     convert_file, _create_pages_bundle and batch_convert over a  *)
(*            small file system, a clock and a scratch area.               *)
(*                                                                         *)
(* A text is a sequence of one-character strings.  The XML document is a   *)
(* sequence of tokens (declaration, open / close / empty tags with their   *)
(* prefixes and attributes, character data); the character data of a       *)
(* paragraph is kept character by character.                               *)
(***************************************************************************)
EXTENDS Integers, Sequences, FiniteSets, TLC

VARIABLES
    \* ---- SpecXml: _content_to_pages_xml
    content_type,   \* 'text' or 'markdown'
    content,        \* the input: a text (text mode) or a sequence of lines (markdown mode)
    xml_content,    \* the serialized document (a token sequence), <<>> before the call
    xpc,            \* "input" before the call, "done" after
    \* ---- Spec: the converter over a file system
    files,          \* the input directory: name -> "file" | "unreadable" | "dir" | "absent"
    outfs,          \* output path -> the archive stored there, or Absent
    outsrc,         \* output path -> the input the stored archive was converted from
    scratch,        \* the scratch directories that exist
    now,            \* the wall clock
    cpc,            \* position inside convert_file / _create_pages_bundle
    cur,            \* the conversion in progress
    result,         \* how the last convert_file call ended
    bpc,            \* position inside batch_convert
    pending,        \* the part of the glob enumeration still to come
    converted,      \* batch_convert's counter
    attempted       \* the files batch_convert has handed to convert_file

xvars == <<content_type, content, xml_content, xpc>>
fvars == <<files, outfs, outsrc, scratch, now, cpc, cur, result, bpc, pending,
           converted, attempted>>
vars == <<content_type, content, xml_content, xpc, files, outfs, outsrc, scratch,
          now, cpc, cur, result, bpc, pending, converted, attempted>>

----------------------------------------------------------------------------
(* Bounds of the model *)

\* The longest input text of SpecXml, in pieces of TextPieces.
MaxPieces == 3

\* The longest markdown input of SpecXml, in lines of MdLines.
MaxMdLines == 3

\* The last tick of the wall clock.
MaxClock == 1

----------------------------------------------------------------------------
(* Python's str operations on texts *)

\* str.startswith
StartsWith(s, p) == Len(s) >= Len(p) /\ SubSeq(s, 1, Len(p)) = p

\* The first index >= 1 at which sep occurs in s, 0 when it does not (str.find + 1)
Find(s, sep) ==
    LET hits == {j \in 1..(Len(s) - Len(sep) + 1) : SubSeq(s, j, j + Len(sep) - 1) = sep}
    IN IF hits = {} THEN 0 ELSE CHOOSE j \in hits : \A k \in hits : j <= k

RECURSIVE Replace(_, _, _)
\* str.replace(old, new): every non-overlapping occurrence, left to right
Replace(s, old, new) ==
    LET j == Find(s, old)
    IN IF j = 0 THEN s
       ELSE SubSeq(s, 1, j - 1) \o new
            \o Replace(SubSeq(s, j + Len(old), Len(s)), old, new)

RECURSIVE Split(_, _)
\* str.split(sep): the pieces between the occurrences of sep, empty ones kept
Split(s, sep) ==
    LET j == Find(s, sep)
    IN IF j = 0 THEN <<s>>
       ELSE <<SubSeq(s, 1, j - 1)>> \o Split(SubSeq(s, j + Len(sep), Len(s)), sep)

Whitespace == {" ", "\n", "\t", "\r"}

\* str.strip(): leading and trailing whitespace removed
Strip(s) ==
    LET keep == {i \in 1..Len(s) : s[i] \notin Whitespace}
    IN IF keep = {} THEN <<>>
       ELSE SubSeq(s, CHOOSE i \in keep : \A k \in keep : i <= k,
                      CHOOSE i \in keep : \A k \in keep : i >= k)

UpperChars == {"A","B","C","D","E","F","G","H","I","J","K","L","M",
               "N","O","P","Q","R","S","T","U","V","W","X","Y","Z"}
LowerChars == {"a","b","c","d","e","f","g","h","i","j","k","l","m",
               "n","o","p","q","r","s","t","u","v","w","x","y","z"}

\* str.isupper(): no lower-case character and at least one cased character
IsUpper(s) ==
    /\ \A i \in 1..Len(s) : s[i] \notin LowerChars
    /\ \E i \in 1..Len(s) : s[i] \in UpperChars

RECURSIVE Flatten(_)
\* ''.join(parts)
Flatten(parts) == IF parts = <<>> THEN <<>> ELSE Head(parts) \o Flatten(Tail(parts))

\* n copies of the character c
Rep(c, n) == [i \in 1..n |-> c]

----------------------------------------------------------------------------
(* _escape_xml *)

\* The chain of replacements of _escape_xml, the ampersand first
EscapeXml(text) ==
    Replace(Replace(Replace(Replace(Replace(text,
        <<"&">>, <<"&","a","m","p",";">>),
        <<"<">>, <<"&","l","t",";">>),
        <<">">>, <<"&","g","t",";">>),
        <<"\"">>, <<"&","q","u","o","t",";">>),
        <<"'">>, <<"&","a","p","o","s",";">>)


----------------------------------------------------------------------------
(* The serialized document, as tokens *)

Attr(p, n, v) == [pfx |-> p, name |-> n, val |-> v]

\* <?xml version="1.0" encoding="UTF-8"?>
XmlDecl == [t |-> "decl", pfx |-> "", local |-> "xml", attrs |-> <<>>, xmlns |-> {},
            text |-> <<>>]

\* <pfx:local attrs xmlns:...>
Open(p, l, as, ns) == [t |-> "open", pfx |-> p, local |-> l, attrs |-> as, xmlns |-> ns,
                       text |-> <<>>]

\* <pfx:local attrs/>
Empty(p, l, as) == [t |-> "empty", pfx |-> p, local |-> l, attrs |-> as, xmlns |-> {},
                    text |-> <<>>]

\* </pfx:local>
Close(p, l) == [t |-> "close", pfx |-> p, local |-> l, attrs |-> <<>>, xmlns |-> {},
                text |-> <<>>]

\* character data, as written into the file
Chars(s) == [t |-> "text", pfx |-> "", local |-> "", attrs |-> <<>>, xmlns |-> {},
             text |-> s]

\* <sl:paragraph-style sfa:ID=id sf:name=name><sl:font sfa:fontName= sfa:fontSize=/></...>
ParagraphStyle(id, name, font, size) ==
    << Open("sl", "paragraph-style", <<Attr("sfa", "ID", id), Attr("sf", "name", name)>>, {}),
       Empty("sl", "font", <<Attr("sfa", "fontName", font), Attr("sfa", "fontSize", size)>>),
       Close("sl", "paragraph-style") >>

\* The document element's start tag and the metadata block
DocumentOpen ==
    << XmlDecl,
       Open("sl", "document", <<Attr("", "version", "72028102400000000")>>, {"sl"}),
       Open("sl", "metadata", <<>>, {}),
       Open("sl", "author", <<>>, {}),
       Chars(<<"P","a","g","e","s"," ","C","o","n","v","e","r","t","e","r">>),
       Close("sl", "author"),
       Open("sl", "creation-date", <<>>, {}),
       Chars(<<"2","0","2","4","-","0","1","-","0","1","T","1","2",":","0","0",":","0","0","Z">>),
       Close("sl", "creation-date"),
       Close("sl", "metadata") >>

\* <sl:body><sl:section><sl:layout-style-ref sfa:IDref="layout-style-0"/>
BodyOpen ==
    << Open("sl", "body", <<>>, {}),
       Open("sl", "section", <<>>, {}),
       Empty("sl", "layout-style-ref", <<Attr("sfa", "IDref", "layout-style-0")>>) >>

\* The first part of xml_parts in text mode: the styles Body and Heading
TextHeader ==
    DocumentOpen
    \o <<Open("sl", "styles", <<>>, {})>>
    \o ParagraphStyle("paragraph-style-0", "Body", "Helvetica", "12")
    \o ParagraphStyle("paragraph-style-1", "Heading", "Helvetica-Bold", "18")
    \o <<Close("sl", "styles")>>
    \o BodyOpen

\* A header for markdown mode whose styles section leaves the Title style out
MarkdownHeaderWithoutTitle ==
    DocumentOpen
    \o <<Open("sl", "styles", <<>>, {})>>
    \o ParagraphStyle("paragraph-style-0", "Body", "Helvetica", "12")
    \o ParagraphStyle("paragraph-style-1", "Heading", "Helvetica-Bold", "18")
    \o <<Close("sl", "styles")>>
    \o BodyOpen

\* The first part of xml_parts in markdown mode: the styles Body, Heading and Title
MarkdownHeader ==
    DocumentOpen
    \o <<Open("sl", "styles", <<>>, {})>>
    \o ParagraphStyle("paragraph-style-0", "Body", "Helvetica", "12")
    \o ParagraphStyle("paragraph-style-1", "Heading", "Helvetica-Bold", "18")
    \o ParagraphStyle("paragraph-style-2", "Title", "Helvetica-Bold", "24")
    \o <<Close("sl", "styles")>>
    \o BodyOpen

\* The last part of xml_parts: </sl:section></sl:body></sl:document>
Footer == << Close("sl", "section"), Close("sl", "body"), Close("sl", "document") >>

\* <sl:p sf:style=style><sf:text>payload</sf:text></sl:p>
Paragraph(style, payload) ==
    << Open("sl", "p", <<Attr("sf", "style", style)>>, {}),
       Open("sf", "text", <<>>, {}),
       Chars(payload),
       Close("sf", "text"),
       Close("sl", "p") >>

----------------------------------------------------------------------------
(* _text_to_pages_xml *)

\* A paragraph shorter than this may be a heading
HeadingMaxLen == 100

\* [p.strip() for p in text_content.split('\n\n') if p.strip()]
Paragraphs(text_content) ==
    LET parts == Split(text_content, <<"\n", "\n">>)
    IN SelectSeq([i \in 1..Len(parts) |-> Strip(parts[i])], LAMBDA p : p # <<>>)

\* IsHeading with the length test off by one (len(para) <= 100)
IsHeadingAtMost(para) == IsUpper(para) /\ Len(para) <= HeadingMaxLen

\* The heuristic of the loop: para.isupper() and len(para) < 100
IsHeading(para) == IsUpper(para) /\ Len(para) < HeadingMaxLen

\* The paragraph element the loop appends for para
TextParagraph(para) ==
    IF IsHeading(para)
    THEN Paragraph("paragraph-style-1", EscapeXml(para))
    ELSE Paragraph("paragraph-style-0", EscapeXml(para))

TextToPagesXml(text_content) ==
    TextHeader
    \o Flatten([i \in 1..Len(Paragraphs(text_content)) |->
                   TextParagraph(Paragraphs(text_content)[i])])
    \o Footer


----------------------------------------------------------------------------
(* markdown.markdown, the library call of _markdown_to_pages_xml, on the    *)
(* fragment of markdown the model draws its inputs from: ATX headings,     *)
(* "- " bullet lists (tight and loose, with lazy continuation lines) and   *)
(* paragraphs, separated by blank lines; inline text with spans of         *)
(* emphasis (*y*) and strong emphasis (**b**) that hold no asterisk and no *)
(* space at their ends, without links, code, raw HTML or entity            *)
(* references.                                                             *)

\* The markers of the fragment
HashMark == <<"#">>
ItemMark == <<"-", " ">>

IsHeaderLine(line) == StartsWith(line, HashMark)
IsItemLine(line) == StartsWith(line, ItemMark)

\* The number of leading '#' of a header line (at most 6 count)
RECURSIVE HeaderLevel(_)
HeaderLevel(line) ==
    IF line # <<>> /\ Head(line) = "#" THEN 1 + HeaderLevel(Tail(line)) ELSE 0

\* The element tree's nodes: a heading or a paragraph with its text, or a list
\* with its items (each with its text, and whether its text sits in a <p>)
Element(tag, text, items) == [tag |-> tag, text |-> text, items |-> items]

RECURSIVE JoinWith(_, _)
\* sep.join(parts)
JoinWith(parts, sep) ==
    IF parts = <<>> THEN <<>>
    ELSE IF Len(parts) = 1 THEN parts[1]
    ELSE parts[1] \o sep \o JoinWith(Tail(parts), sep)

RECURSIVE SourceBlocks(_, _)
\* The runs of non-blank lines of the source (cur: the run being read)
SourceBlocks(lines, run) ==
    IF lines = <<>> THEN (IF run = <<>> THEN <<>> ELSE <<run>>)
    ELSE IF Head(lines) = <<>>
         THEN (IF run = <<>> THEN <<>> ELSE <<run>>) \o SourceBlocks(Tail(lines), <<>>)
         ELSE SourceBlocks(Tail(lines), Append(run, Head(lines)))

RECURSIVE GetItems(_, _)
\* OListProcessor.get_items: an item line opens an item, any other line
\* continues the item before it
GetItems(block, items) ==
    IF block = <<>> THEN items
    ELSE IF IsItemLine(Head(block))
         THEN GetItems(Tail(block),
                  Append(items, SubSeq(Head(block), Len(ItemMark) + 1, Len(Head(block)))))
         ELSE GetItems(Tail(block),
                  SubSeq(items, 1, Len(items) - 1)
                  \o <<items[Len(items)] \o <<"\n">> \o Head(block)>>)

\* UListProcessor.run: a list block after a list joins it; the item before the
\* gap and the first item after it get their text wrapped in a paragraph
AddList(elems, block) ==
    LET items == GetItems(block, <<>>)
        tight == [i \in 1..Len(items) |-> [text |-> items[i], loose |-> FALSE]]
    IN IF elems # <<>> /\ elems[Len(elems)].tag = <<"u","l">>
       THEN LET lst == elems[Len(elems)].items
                joined ==
                    [i \in 1..Len(lst) |->
                        [text |-> lst[i].text, loose |-> lst[i].loose \/ i = Len(lst)]]
                    \o [i \in 1..Len(items) |-> [text |-> items[i], loose |-> i = 1]]
            IN SubSeq(elems, 1, Len(elems) - 1)
               \o <<Element(<<"u","l">>, <<>>, joined)>>
       ELSE Append(elems, Element(<<"u","l">>, <<>>, tight))

\* HashHeaderProcessor.run: the heading of a header line
Heading(line) ==
    LET n == HeaderLevel(line)
        level == IF n > 6 THEN 6 ELSE n
    IN Element(<<"h", ToString(level)>>, Strip(SubSeq(line, level + 1, Len(line))), <<>>)

RECURSIVE ParseBlocks(_, _)
\* BlockParser.parseBlocks over the root element
ParseBlocks(blocks, elems) ==
    IF blocks = <<>> THEN elems
    ELSE LET block == Head(blocks)
             rest == Tail(blocks)
             hs == {k \in 1..Len(block) : IsHeaderLine(block[k])}
         IN IF hs # {}
            THEN LET k == CHOOSE i \in hs : \A j \in hs : i <= j
                     before == SubSeq(block, 1, k - 1)
                     after == SubSeq(block, k + 1, Len(block))
                     e1 == IF before = <<>> THEN elems ELSE ParseBlocks(<<before>>, elems)
                 IN ParseBlocks((IF after = <<>> THEN <<>> ELSE <<after>>) \o rest,
                                Append(e1, Heading(block[k])))
            ELSE IF IsItemLine(block[1])
                 THEN ParseBlocks(rest, AddList(elems, block))
                 ELSE ParseBlocks(rest,
                          Append(elems, Element(<<"p">>, JoinWith(block, <<"\n">>), <<>>)))

\* The serializer's escaping of character data
HtmlEscape(text) ==
    Replace(Replace(Replace(text,
        <<"&">>, <<"&","a","m","p",";">>),
        <<"<">>, <<"&","l","t",";">>),
        <<">">>, <<"&","g","t",";">>)

StartTag(tag) == <<"<">> \o tag \o <<">">>
EndTag(tag) == <<"<", "/">> \o tag \o <<">">>

RECURSIVE Span(_, _, _)
\* An inline pattern: each stretch of text between two marks becomes an element
Span(text, mark, tag) ==
    LET i == Find(text, mark)
        rest == IF i = 0 THEN <<>> ELSE SubSeq(text, i + Len(mark), Len(text))
        j == Find(rest, mark)
    IN IF i = 0 \/ j <= 1 THEN text
       ELSE SubSeq(text, 1, i - 1) \o StartTag(tag) \o SubSeq(rest, 1, j - 1)
            \o EndTag(tag) \o Span(SubSeq(rest, j + Len(mark), Len(rest)), mark, tag)

\* The text of an element, as serialized: its character data escaped, its
\* spans of strong emphasis and of emphasis as elements
InlineHtml(text) ==
    Span(Span(HtmlEscape(text), <<"*","*">>, <<"s","t","r","o","n","g">>),
         <<"*">>, <<"e","m">>)

\* One list item, as serialized
ItemHtml(item) ==
    IF item.loose
    THEN StartTag(<<"l","i">>) \o <<"\n">> \o StartTag(<<"p">>) \o InlineHtml(item.text)
         \o EndTag(<<"p">>) \o <<"\n">> \o EndTag(<<"l","i">>)
    ELSE StartTag(<<"l","i">>) \o InlineHtml(item.text) \o EndTag(<<"l","i">>)

\* One element of the root, as serialized
ElementHtml(e) ==
    IF e.tag = <<"u","l">>
    THEN StartTag(<<"u","l">>) \o <<"\n">>
         \o Flatten([i \in 1..Len(e.items) |-> ItemHtml(e.items[i]) \o <<"\n">>])
         \o EndTag(<<"u","l">>)
    ELSE StartTag(e.tag) \o InlineHtml(e.text) \o EndTag(e.tag)

\* The element tree markdown builds from the source lines
MarkdownTree(lines) == ParseBlocks(SourceBlocks(lines, <<>>), <<>>)

\* markdown.markdown(markdown_content)
Markdown(lines) ==
    LET tree == MarkdownTree(lines)
    IN JoinWith([i \in 1..Len(tree) |-> ElementHtml(tree[i])], <<"\n">>)


----------------------------------------------------------------------------
(* _markdown_to_pages_xml *)

\* The bullet character and a space; the character U+2022 is written by its name
BulletGlyph == <<"U+2022", " ">>

\* The body of the loop over the lines of the HTML: the paragraph element it
\* appends for one line, <<>> when it appends none
MarkdownLine(raw) ==
    LET line == Strip(raw)
    IN IF line = <<>> THEN <<>>
       ELSE IF StartsWith(line, <<"<","h","1",">">>)
       THEN Paragraph("paragraph-style-2",
                EscapeXml(Replace(Replace(line, <<"<","h","1",">">>, <<>>),
                                  <<"<","/","h","1",">">>, <<>>)))
       ELSE IF StartsWith(line, <<"<","h","2",">">>) \/ StartsWith(line, <<"<","h","3",">">>)
       THEN Paragraph("paragraph-style-1",
                EscapeXml(Replace(Replace(Replace(Replace(line,
                    <<"<","h","2",">">>, <<>>), <<"<","/","h","2",">">>, <<>>),
                    <<"<","h","3",">">>, <<>>), <<"<","/","h","3",">">>, <<>>)))
       ELSE IF StartsWith(line, <<"<","s","t","r","o","n","g",">">>)
               \/ StartsWith(line, <<"<","b",">">>)
       THEN Paragraph("paragraph-style-0",
                EscapeXml(Replace(Replace(Replace(Replace(line,
                    <<"<","s","t","r","o","n","g",">">>, <<>>),
                    <<"<","/","s","t","r","o","n","g",">">>, <<>>),
                    <<"<","b",">">>, <<>>), <<"<","/","b",">">>, <<>>)))
       ELSE IF StartsWith(line, <<"<","l","i",">">>)
       THEN Paragraph("paragraph-style-0",
                BulletGlyph \o
                EscapeXml(Replace(Replace(Replace(Replace(Replace(Replace(line,
                    <<"<","l","i",">">>, <<>>), <<"<","/","l","i",">">>, <<>>),
                    <<"<","u","l",">">>, <<>>), <<"<","/","u","l",">">>, <<>>),
                    <<"<","o","l",">">>, <<>>), <<"<","/","o","l",">">>, <<>>)))
       ELSE LET clean_text == Strip(Replace(Replace(line, <<"<">>, <<>>), <<">">>, <<>>))
            IN IF clean_text # <<>>
               THEN Paragraph("paragraph-style-0", EscapeXml(clean_text))
               ELSE <<>>

\* html.replace('<p>', '').replace('</p>', '\n').replace('<br>', '\n').split('\n')
HtmlLines(html) ==
    Split(Replace(Replace(Replace(html,
              <<"<","p",">">>, <<>>),
              <<"<","/","p",">">>, <<"\n">>),
              <<"<","b","r",">">>, <<"\n">>),
          <<"\n">>)

\* markdown_content is given as its lines
MarkdownToPagesXml(markdown_content) ==
    MarkdownHeader
    \o (LET lines == HtmlLines(Markdown(markdown_content))
        IN Flatten([i \in 1..Len(lines) |-> MarkdownLine(lines[i])]))
    \o Footer

\* _content_to_pages_xml
ContentToPagesXml(c, ctype) ==
    IF ctype = "markdown" THEN MarkdownToPagesXml(c) ELSE TextToPagesXml(c)


----------------------------------------------------------------------------
(* The inputs of SpecXml *)

\* All sequences over S of length at most n
SeqsUpTo(S, n) == UNION {[1..k -> S] : k \in 0..n}

\* The pieces input texts are put together from: the two paragraphs of the
\* documented example, paragraph breaks and line breaks, cased and uncased
\* characters, a run of capitals two short of HeadingMaxLen, and the five
\* reserved characters
TextPieces ==
    { <<"H","E","L","L","O"," ","W","O","R","L","D">>,
      <<"T","h","i","s"," ","i","s"," ","b","o","d","y"," ","t","e","x","t",".">>,
      <<"\n","\n">>, <<"\n">>, <<"a">>, <<"1">>, <<"A">>,
      Rep("A", HeadingMaxLen - 2),
      <<"&">>, <<"<",">">>, <<"\"","'">> }

TextInputs == {Flatten(ps) : ps \in SeqsUpTo(TextPieces, MaxPieces)}

\* The lines markdown inputs are put together from: a blank line, headings of
\* levels 1 to 3, list items and paragraph lines, some with reserved characters,
\* some with emphasis
MdLines ==
    { <<>>,
      <<"#"," ","T">>, <<"#","#"," ","S">>, <<"#","#","#"," ","U">>,
      <<"-"," ","a">>, <<"-"," ","b"," ","&"," ","c">>,
      <<"x"," ","&"," ","y">>, <<"1"," ","<"," ","2">>,
      <<"x"," ","*","y","*">>, <<"*","*","b","*","*"," ","c">> }

MdInputs == SeqsUpTo(MdLines, MaxMdLines)

----------------------------------------------------------------------------
(* The file system of Spec *)

\* The paths of the model: a markdown file, a text file with the same stem, a
\* file with another extension, a subdirectory of the input directory, and a
\* path with no file; "." is the input directory itself
InputNames == {"a.md", "a.txt", "b.rst"}
DirEntries == InputNames \cup {"sub"}
CallNames == DirEntries \cup {"gone.txt"}
AllPaths == CallNames \cup {"."}

\* Path.suffix
Suffix == [n \in CallNames |->
             IF n = "a.md" THEN ".md" ELSE IF n \in {"a.txt", "gone.txt"} THEN ".txt"
             ELSE IF n = "b.rst" THEN ".rst" ELSE ""]

\* Path.stem
Stem == [n \in CallNames |-> IF n \in {"a.md", "a.txt"} THEN "a"
                             ELSE IF n = "b.rst" THEN "b"
                             ELSE IF n = "sub" THEN "sub" ELSE "gone"]

\* relative_path.with_suffix('.pages'), under the output directory
WithSuffixPages(n) == Stem[n] \o ".pages"

\* The output paths of the model
OutPaths == {WithSuffixPages(n) : n \in InputNames}

\* What reading each input file returns (a markdown file is given by its lines)
FileContent ==
    [n \in InputNames |->
        IF n = "a.md" THEN << <<"#"," ","T">>, <<"x"," ","&"," ","y">> >>
        ELSE IF n = "a.txt" THEN <<"H","I","\n","\n","a"," ","<"," ","b">>
        ELSE <<"n","o","t","e">>]

\* Path.exists and Path.is_file
Exists(fs, n) == fs[n] # "absent"
IsFile(fs, n) == fs[n] \in {"file", "unreadable"}

\* The names tempfile may give a scratch directory
ScratchNames == {"tmp1", "tmp2"}

\* An output path with no file
Absent == [exists |-> FALSE, members |-> <<>>]

\* No conversion in progress; no call finished yet
NoConversion == [input |-> "", output |-> "", xml |-> <<>>, failed |-> FALSE,
                 cause |-> "", dir |-> "", caller |-> ""]
NoResult == [value |-> "none", cause |-> ""]

\* The scratch directory's entries, by path relative to it
ScratchTop == {"index.xml", "buildVersionHistory.plist", "QuickLook"}
ThumbnailPath == "QuickLook/Thumbnail.jpg"
ScratchIsFile(path) == path # "QuickLook"

\* The bytes written to each scratch file
ScratchData(path, xml) ==
    IF path = "index.xml" THEN xml
    ELSE IF path = "buildVersionHistory.plist"
    THEN <<"plist", "BuildVersion", "192", "ProductVersion", "4.0">>
    ELSE <<"jpeg", "1x1">>

\* temp_path.rglob('*'): the entries of the scratch directory in the order the
\* file system lists them, and after them the entries of its subdirectory
RglobOrders ==
    {order \o <<ThumbnailPath>> :
        order \in {o \in [1..Cardinality(ScratchTop) -> ScratchTop] :
                      {o[i] : i \in DOMAIN o} = ScratchTop}}

\* The loop over rglob without its is_file() test
FilesOfAnyKind(order) == order

\* The loop over rglob: the entries zf.write is called for
FilesOf(order) == SelectSeq(order, ScratchIsFile)

\* The archive members zf.write stores: name, bytes and the file's mtime
BundleMembers(order, xml, mtime) ==
    [i \in 1..Len(FilesOf(order)) |->
        [name |-> FilesOf(order)[i],
         data |-> ScratchData(FilesOf(order)[i], xml),
         mtime |-> mtime]]

\* Leaving the with block when cleanup is skipped on an exception
ScratchKeptOnError(s, d, failed) == IF failed THEN s ELSE s \ {d}

\* Leaving the with block of TemporaryDirectory, normally or by an exception:
\* the scratch directory is removed
ScratchAfterExit(s, d, failed) == s \ {d}

----------------------------------------------------------------------------
(* convert_file and _create_pages_bundle *)

\* The content type convert_file picks by suffix
ContentTypeOf(n) == IF Suffix[n] = ".md" THEN "markdown" ELSE "text"

\* How convert_file ends before it reaches _create_pages_bundle (value "" when
\* it reaches it): False for a missing input, an exception when open() fails
EarlyOutcome(fs, n) ==
    IF ~Exists(fs, n) THEN [value |-> "False", cause |-> "missing"]
    ELSE IF fs[n] # "file" THEN [value |-> "raised", cause |-> "read"]
    ELSE [value |-> "", cause |-> ""]

\* convert_file up to the with statement of _create_pages_bundle, for a
\* readable input: the XML is built and the scratch directory d is created
EnterBundle(input, output, caller, d) ==
    /\ d \notin scratch
    /\ scratch' = scratch \cup {d}
    /\ cur' = [input |-> input, output |-> output,
               xml |-> ContentToPagesXml(FileContent[input], ContentTypeOf(input)),
               failed |-> FALSE, cause |-> "", dir |-> d, caller |-> caller]
    /\ cpc' = "bundle"

\* A call of convert_file from the command line
ConvertFile ==
    /\ cpc = "idle" /\ bpc = "idle"
    /\ \E input \in CallNames, output \in OutPaths :
          LET early == EarlyOutcome(files, input)
          IN IF early.value # ""
             THEN /\ result' = early
                  /\ UNCHANGED <<cpc, cur, scratch>>
             ELSE /\ \E d \in ScratchNames : EnterBundle(input, output, "cli", d)
                  /\ result' = NoResult
    /\ UNCHANGED <<files, outfs, outsrc, now, bpc, pending, converted, attempted>>
    /\ UNCHANGED xvars

\* The body of the with block of _create_pages_bundle: the scratch files are
\* written (their mtime is the clock's), the output's parent directory is made,
\* the archive is opened (and so created or truncated) and the scratch files are
\* written into it in rglob order.  Each of the four steps may raise; a failing
\* zf.write leaves the archive file behind, incomplete
BundleBuild ==
    /\ cpc = "bundle"
    /\ \E order \in RglobOrders,
          outcome \in {"ok", "scratch_write", "mkdir", "zip_open", "zip_write"} :
          \/ /\ outcome = "ok"
             /\ outfs' = [outfs EXCEPT ![cur.output] =
                             [exists |-> TRUE,
                              members |-> BundleMembers(order, cur.xml, now)]]
             /\ outsrc' = [outsrc EXCEPT ![cur.output] = cur.input]
             /\ UNCHANGED cur
          \/ /\ outcome \in {"scratch_write", "mkdir", "zip_open"}
             /\ cur' = [cur EXCEPT !.failed = TRUE, !.cause = outcome]
             /\ UNCHANGED <<outfs, outsrc>>
          \/ /\ outcome = "zip_write"
             /\ outfs' = [outfs EXCEPT ![cur.output] = [exists |-> TRUE, members |-> <<>>]]
             /\ outsrc' = [outsrc EXCEPT ![cur.output] = ""]
             /\ cur' = [cur EXCEPT !.failed = TRUE, !.cause = outcome]
    /\ cpc' = "exit"
    /\ UNCHANGED <<files, scratch, now, result, bpc, pending, converted, attempted>>
    /\ UNCHANGED xvars

\* The end of the with block and of the call: the scratch directory goes, and
\* convert_file returns output_path.exists() or lets the exception through; a
\* call from batch_convert is counted when it returned True, and an exception
\* leaves batch_convert too
BundleExit ==
    /\ cpc = "exit"
    /\ scratch' = ScratchAfterExit(scratch, cur.dir, cur.failed)
    /\ LET value == IF cur.failed THEN "raised"
                    ELSE IF outfs[cur.output].exists THEN "True" ELSE "False"
       IN /\ result' = [value |-> value, cause |-> cur.cause]
          /\ IF cur.caller = "batch"
             THEN /\ attempted' = attempted \cup {<<cur.input, value>>}
                  /\ converted' = IF value = "True" THEN converted + 1 ELSE converted
                  /\ bpc' = IF value = "raised" THEN "raised" ELSE bpc
             ELSE UNCHANGED <<attempted, converted, bpc>>
    /\ cpc' = "idle"
    /\ cur' = NoConversion
    /\ UNCHANGED <<files, outfs, outsrc, now, pending>>
    /\ UNCHANGED xvars

----------------------------------------------------------------------------
(* batch_convert *)

\* input_dir.glob('*'): the entries of the input directory
Glob(fs) == {n \in DirEntries : Exists(fs, n)}

\* batch_convert up to its loop, called into an empty output directory
BatchConvert ==
    /\ cpc = "idle" /\ bpc = "idle"
    /\ result = NoResult
    /\ \A o \in OutPaths : ~outfs[o].exists
    /\ converted' = 0
    /\ attempted' = {}
    /\ IF ~Exists(files, ".")
       THEN bpc' = "returned" /\ pending' = {}
       ELSE bpc' = "loop" /\ pending' = Glob(files)
    /\ UNCHANGED <<files, outfs, outsrc, scratch, now, cpc, cur, result>>
    /\ UNCHANGED xvars

\* One round of the loop: the next entry glob yields (in any order); a file
\* gets its output path, the output's parent is made (which may raise) and
\* convert_file is called
BatchIter ==
    /\ bpc = "loop" /\ cpc = "idle"
    /\ \E input \in pending :
          /\ pending' = pending \ {input}
          /\ IF ~IsFile(files, input)
             THEN UNCHANGED <<bpc, cpc, cur, scratch, result, attempted>>
             ELSE \E mkdir_ok \in BOOLEAN :
                    LET early == EarlyOutcome(files, input)
                        output == WithSuffixPages(input)
                    IN IF ~mkdir_ok
                       THEN /\ bpc' = "raised"
                            /\ UNCHANGED <<cpc, cur, scratch, result, attempted>>
                       ELSE IF early.value # ""
                       THEN /\ result' = early
                            /\ attempted' = attempted \cup {<<input, early.value>>}
                            /\ bpc' = IF early.value = "raised" THEN "raised" ELSE bpc
                            /\ UNCHANGED <<cpc, cur, scratch>>
                       ELSE /\ \E d \in ScratchNames : EnterBundle(input, output, "batch", d)
                            /\ result' = NoResult
                            /\ UNCHANGED <<bpc, attempted>>
    /\ UNCHANGED <<files, outfs, outsrc, now, converted>>
    /\ UNCHANGED xvars

\* The loop is over: return converted
BatchReturn ==
    /\ bpc = "loop" /\ cpc = "idle" /\ pending = {}
    /\ bpc' = "returned"
    /\ UNCHANGED <<files, outfs, outsrc, scratch, now, cpc, cur, result, pending,
                   converted, attempted>>
    /\ UNCHANGED xvars

\* Time passes between two calls
Tick ==
    /\ cpc = "idle"
    /\ now < MaxClock
    /\ now' = now + 1
    /\ UNCHANGED <<files, outfs, outsrc, scratch, cpc, cur, result, bpc, pending,
                   converted, attempted>>
    /\ UNCHANGED xvars

\* The input directories of the model: missing; or holding a.md, a.txt, a
\* subdirectory, and b.rst as a file that can or cannot be read
InitialFiles ==
    {[p \in AllPaths |-> "absent"]}
    \cup {[p \in AllPaths |->
             IF p \in {".", "sub"} THEN "dir"
             ELSE IF p = "gone.txt" THEN "absent"
             ELSE IF p = "b.rst" THEN b ELSE "file"] : b \in {"file", "unreadable"}}

\* A run of the command line over a fresh output directory: any number of
\* single conversions, or one batch conversion
Init ==
    /\ files \in InitialFiles
    /\ outfs = [o \in OutPaths |-> Absent]
    /\ outsrc = [o \in OutPaths |-> ""]
    /\ scratch = {}
    /\ now = 0
    /\ cpc = "idle" /\ cur = NoConversion /\ result = NoResult
    /\ bpc = "idle" /\ pending = {} /\ converted = 0 /\ attempted = {}
    /\ content_type = "text" /\ content = <<>> /\ xml_content = <<>> /\ xpc = "input"

Next ==
    \/ ConvertFile
    \/ BundleBuild
    \/ BundleExit
    \/ BatchConvert
    \/ BatchIter
    \/ BatchReturn
    \/ Tick

Spec == Init /\ [][Next]_vars

----------------------------------------------------------------------------
(* SpecXml: _content_to_pages_xml on every input *)

InitXml ==
    /\ content_type \in {"text", "markdown"}
    /\ content \in (IF content_type = "text" THEN TextInputs ELSE MdInputs)
    /\ xml_content = <<>>
    /\ xpc = "input"
    /\ files = [p \in AllPaths |-> "absent"]
    /\ outfs = [o \in OutPaths |-> Absent]
    /\ outsrc = [o \in OutPaths |-> ""]
    /\ scratch = {}
    /\ now = 0
    /\ cpc = "idle" /\ cur = NoConversion /\ result = NoResult
    /\ bpc = "idle" /\ pending = {} /\ converted = 0 /\ attempted = {}

\* _content_to_pages_xml(content, 'text')
TextCall ==
    /\ xpc = "input"
    /\ content_type = "text"
    /\ xml_content' = ContentToPagesXml(content, content_type)
    /\ xpc' = "done"
    /\ UNCHANGED <<content_type, content>>
    /\ UNCHANGED fvars

\* _content_to_pages_xml(content, 'markdown')
MarkdownCall ==
    /\ xpc = "input"
    /\ content_type = "markdown"
    /\ xml_content' = ContentToPagesXml(content, content_type)
    /\ xpc' = "done"
    /\ UNCHANGED <<content_type, content>>
    /\ UNCHANGED fvars

NextXml == TextCall \/ MarkdownCall

SpecXml == InitXml /\ [][NextXml]_vars


----------------------------------------------------------------------------
(* Reading a serialized document back *)

\* The five predefined entity references of XML
Entities ==
    { [ref |-> <<"&","a","m","p",";">>, ch |-> "&"],
      [ref |-> <<"&","l","t",";">>, ch |-> "<"],
      [ref |-> <<"&","g","t",";">>, ch |-> ">"],
      [ref |-> <<"&","q","u","o","t",";">>, ch |-> "\""],
      [ref |-> <<"&","a","p","o","s",";">>, ch |-> "'"] }

RECURSIVE Unescape(_)
\* What an XML parser returns for character data: each entity reference
\* replaced by its character, in one pass
Unescape(s) ==
    LET j == Find(s, <<"&">>)
    IN IF j = 0 THEN s
       ELSE LET rest == SubSeq(s, j, Len(s))
                es == {e \in Entities : StartsWith(rest, e.ref)}
            IN IF es # {}
               THEN LET e == CHOOSE x \in es : TRUE
                    IN SubSeq(s, 1, j - 1) \o <<e.ch>>
                       \o Unescape(SubSeq(rest, Len(e.ref) + 1, Len(rest)))
               ELSE SubSeq(s, 1, j) \o Unescape(Tail(rest))

\* No reserved character stands unescaped in s
NoUnescaped(s) ==
    \A i \in 1..Len(s) :
        /\ s[i] \notin {"<", ">", "\"", "'"}
        /\ s[i] = "&" => \E e \in Entities : StartsWith(SubSeq(s, i, Len(s)), e.ref)

\* Character data a parser accepts: no '<', and every '&' opens a reference
CharDataOk(s) ==
    \A i \in 1..Len(s) :
        /\ s[i] # "<"
        /\ s[i] = "&" => \E e \in Entities : StartsWith(SubSeq(s, i, Len(s)), e.ref)

\* The prefixes of a tag and of its attributes are declared in scope ns
PrefixesDeclared(k, ns) ==
    /\ k.pfx = "" \/ k.pfx \in ns
    /\ \A j \in 1..Len(k.attrs) : k.attrs[j].pfx = "" \/ k.attrs[j].pfx \in ns

RECURSIVE WellFormedFrom(_, _, _, _)
\* The tokens from i on are well formed, given the stack of open elements
\* (each with the prefixes in scope) and the number of root elements so far
WellFormedFrom(doc, i, stack, roots) ==
    IF i > Len(doc) THEN stack = <<>> /\ roots = 1
    ELSE LET k == doc[i]
             scope == IF stack = <<>> THEN {} ELSE stack[Len(stack)].ns
             top == roots + (IF stack = <<>> THEN 1 ELSE 0)
         IN CASE k.t = "decl" ->
                    i = 1 /\ WellFormedFrom(doc, i + 1, stack, roots)
              [] k.t = "open" ->
                    /\ PrefixesDeclared(k, scope \cup k.xmlns)
                    /\ top <= 1
                    /\ WellFormedFrom(doc, i + 1,
                           Append(stack, [pfx |-> k.pfx, local |-> k.local,
                                          ns |-> scope \cup k.xmlns]), top)
              [] k.t = "empty" ->
                    /\ PrefixesDeclared(k, scope \cup k.xmlns)
                    /\ top <= 1
                    /\ WellFormedFrom(doc, i + 1, stack, top)
              [] k.t = "close" ->
                    /\ stack # <<>>
                    /\ stack[Len(stack)].pfx = k.pfx
                    /\ stack[Len(stack)].local = k.local
                    /\ WellFormedFrom(doc, i + 1, SubSeq(stack, 1, Len(stack) - 1), roots)
              [] k.t = "text" ->
                    /\ stack # <<>>
                    /\ CharDataOk(k.text)
                    /\ WellFormedFrom(doc, i + 1, stack, roots)

\* A namespace-aware parser accepts the document
WellFormed(doc) == WellFormedFrom(doc, 1, <<>>, 0)

\* The paragraph elements of a document, in order: the style each refers to
\* and its character data as written
ParagraphsOf(doc) ==
    LET at == SelectSeq([i \in 1..Len(doc) |-> i],
                  LAMBDA i : doc[i].t = "open" /\ doc[i].pfx = "sl" /\ doc[i].local = "p")
    IN [k \in 1..Len(at) |->
           [style |-> doc[at[k]].attrs[1].val, payload |-> doc[at[k] + 2].text]]


----------------------------------------------------------------------------
(* Properties of the conversions (SpecXml) *)

\* The character at i belongs to a blank-line boundary of s: a line break next
\* to another line break
IsBoundary(s, i) ==
    /\ s[i] = "\n"
    /\ \/ (i > 1 /\ s[i - 1] = "\n")
       \/ (i < Len(s) /\ s[i + 1] = "\n")

\* The non-empty paragraphs of a plain text, trimmed: the maximal runs of
\* characters between blank-line boundaries, in order
SourceParagraphs(text) ==
    LET inside == {i \in 1..Len(text) : ~IsBoundary(text, i)}
        starts == {i \in inside : i - 1 \notin inside}
        ends == {i \in inside : i + 1 \notin inside}
        EndOf(a) == CHOOSE b \in ends : b >= a /\ \A c \in ends : c >= a => b <= c
        Nth(k) == CHOOSE a \in starts : Cardinality({b \in starts : b < a}) = k - 1
        runs == [k \in 1..Cardinality(starts) |-> SubSeq(text, Nth(k), EndOf(Nth(k)))]
    IN SelectSeq([k \in 1..Len(runs) |-> Strip(runs[k])], LAMBDA p : p # <<>>)

\* The text has a letter and all its letters are capitals
EntirelyUpperCase(p) ==
    LET letters == {i \in 1..Len(p) : p[i] \in UpperChars \cup LowerChars}
    IN letters # {} /\ \A i \in letters : p[i] \in UpperChars

\* "HELLO WORLD\n\nThis is body text."
ExampleText ==
    <<"H","E","L","L","O"," ","W","O","R","L","D">> \o <<"\n","\n">>
    \o <<"T","h","i","s"," ","i","s"," ","b","o","d","y"," ","t","e","x","t",".">>

\* C7: in plain-text mode the document has one paragraph element per non-empty
\* paragraph of the input, in order, holding that paragraph's text; its style is
\* Heading (paragraph-style-1) exactly when the paragraph is entirely upper-case
\* and shorter than 100 characters, and Body (paragraph-style-0) otherwise; the
\* example text gives Heading "HELLO WORLD", then Body "This is body text."
PlainTextClassification ==
    (xpc = "done" /\ content_type = "text") =>
        LET ps == SourceParagraphs(content)
            out == ParagraphsOf(xml_content)
        IN /\ Len(out) = Len(ps)
           /\ \A i \in 1..Len(ps) :
                /\ Unescape(out[i].payload) = ps[i]
                /\ out[i].style = "paragraph-style-1"
                     <=> (EntirelyUpperCase(ps[i]) /\ Len(ps[i]) < 100)
                /\ out[i].style \in {"paragraph-style-0", "paragraph-style-1"}
           /\ content = ExampleText =>
                out = << [style |-> "paragraph-style-1",
                          payload |-> <<"H","E","L","L","O"," ","W","O","R","L","D">>],
                         [style |-> "paragraph-style-0",
                          payload |-> <<"T","h","i","s"," ","i","s"," ","b","o","d","y",
                                        " ","t","e","x","t",".">>] >>

\* The example text has been converted: a Heading and then a Body paragraph
PlainTextClassified ==
    /\ xpc = "done" /\ content_type = "text" /\ content = ExampleText
    /\ [i \in 1..Len(ParagraphsOf(xml_content)) |-> ParagraphsOf(xml_content)[i].style]
         = <<"paragraph-style-1", "paragraph-style-0">>

\* The texts of a markdown source: heading texts, list item texts and paragraph
\* lines, without their markers
MdSourceTexts(lines) ==
    LET tree == MarkdownTree(lines)
        LinesOf(t) == {Split(t, <<"\n">>)[j] : j \in 1..Len(Split(t, <<"\n">>))}
    IN UNION { IF tree[i].tag = <<"u","l">>
               THEN UNION {LinesOf(tree[i].items[j].text) : j \in 1..Len(tree[i].items)}
               ELSE LinesOf(tree[i].text) : i \in 1..Len(tree) }

\* The text of a payload, without the bullet glyph of a list item
PayloadText(payload) ==
    IF StartsWith(payload, BulletGlyph)
    THEN SubSeq(payload, Len(BulletGlyph) + 1, Len(payload))
    ELSE payload

\* C4: in both modes no payload holds an unescaped reserved character, and every
\* text of the source is recovered exactly by un-escaping a payload
EscapingRoundTrip ==
    xpc = "done" =>
        LET out == ParagraphsOf(xml_content)
            texts == IF content_type = "text"
                     THEN {SourceParagraphs(content)[i] :
                              i \in 1..Len(SourceParagraphs(content))}
                     ELSE MdSourceTexts(content)
        IN /\ \A i \in 1..Len(out) : NoUnescaped(out[i].payload)
           /\ \A t \in texts :
                \E i \in 1..Len(out) :
                    Unescape(IF content_type = "text" THEN out[i].payload
                             ELSE PayloadText(out[i].payload)) = t

\* A text without reserved characters
PlainText(t) == \A i \in 1..Len(t) : t[i] \notin {"&", "<", ">", "\"", "'"}

\* The payloads are the given texts, one each and in order (a text with a
\* reserved character is left to C4, and only counted here)
SameTexts(payloads, texts) ==
    /\ Len(payloads) = Len(texts)
    /\ \A i \in 1..Len(texts) : PlainText(texts[i]) => Unescape(payloads[i]) = texts[i]

\* The payloads of the paragraphs of a document that refer to a style
PayloadsOfStyle(doc, style) ==
    LET ps == SelectSeq(ParagraphsOf(doc), LAMBDA p : p.style = style)
    IN [i \in 1..Len(ps) |-> ps[i].payload]

\* The payloads of the paragraphs of a document that start with a bullet glyph,
\* without the glyph
BulletTexts(doc) ==
    LET ps == SelectSeq(ParagraphsOf(doc), LAMBDA p : StartsWith(p.payload, BulletGlyph))
    IN [i \in 1..Len(ps) |-> PayloadText(ps[i].payload)]

\* C8: in markdown mode the Title paragraphs (style 2) are the level-1 headings
\* of the source, the Heading paragraphs (style 1) its level-2 and level-3
\* headings, and the paragraphs with a bullet glyph (style 0) its list items,
\* one paragraph each, in order, holding the text without its markers
MarkdownHeadingMapping ==
    (xpc = "done" /\ content_type = "markdown") =>
        LET tree == MarkdownTree(content)
            h1 == SelectSeq(tree, LAMBDA e : e.tag = <<"h","1">>)
            h23 == SelectSeq(tree, LAMBDA e : e.tag \in {<<"h","2">>, <<"h","3">>})
            uls == SelectSeq(tree, LAMBDA e : e.tag = <<"u","l">>)
            items == Flatten([i \in 1..Len(uls) |->
                         [j \in 1..Len(uls[i].items) |-> uls[i].items[j].text]])
        IN /\ SameTexts(PayloadsOfStyle(xml_content, "paragraph-style-2"),
                        [i \in 1..Len(h1) |-> h1[i].text])
           /\ SameTexts(PayloadsOfStyle(xml_content, "paragraph-style-1"),
                        [i \in 1..Len(h23) |-> h23[i].text])
           /\ SameTexts(BulletTexts(xml_content), items)
           /\ \A p \in {ParagraphsOf(xml_content)[i] : i \in 1..Len(ParagraphsOf(xml_content))} :
                StartsWith(p.payload, BulletGlyph) => p.style = "paragraph-style-0"

RECURSIVE StripTags(_)
\* A line of HTML without its tags, each removed whole
StripTags(line) ==
    LET i == Find(line, <<"<">>)
        rest == IF i = 0 THEN <<>> ELSE SubSeq(line, i + 1, Len(line))
        j == Find(rest, <<">">>)
    IN IF i = 0 \/ j = 0 THEN line
       ELSE SubSeq(line, 1, i - 1) \o StripTags(SubSeq(rest, j + 1, Len(rest)))

\* The line of HTML opens a heading of level 1 to 3 or a list item
IsHeadingOrItemLine(line) ==
    \E tag \in {<<"h","1">>, <<"h","2">>, <<"h","3">>, <<"l","i">>} :
        StartsWith(line, StartTag(tag))

\* The texts the other lines of the HTML of a markdown source leave once their
\* tags are stripped and they are trimmed, the empty ones dropped, in order
OtherLineTexts(lines) ==
    LET html == Split(Markdown(lines), <<"\n">>)
        other == SelectSeq([i \in 1..Len(html) |-> Strip(html[i])],
                     LAMBDA l : l # <<>> /\ ~IsHeadingOrItemLine(l))
    IN SelectSeq([i \in 1..Len(other) |-> Strip(StripTags(other[i]))],
                 LAMBDA t : t # <<>>)

\* The payloads of the Body paragraphs of a document: style 0, no bullet glyph
BodyPayloads(doc) ==
    LET ps == SelectSeq(ParagraphsOf(doc),
                  LAMBDA p : p.style = "paragraph-style-0"
                             /\ ~StartsWith(p.payload, BulletGlyph))
    IN [i \in 1..Len(ps) |-> ps[i].payload]

\* C11: in markdown mode the Body paragraphs are the lines of the HTML that are
\* neither heading lines nor list-item lines, one paragraph each and in order,
\* holding the line with every tag stripped whole (so emphasis reads as plain
\* text); a line with nothing left after stripping and trimming gives none
MarkdownOtherLines ==
    (xpc = "done" /\ content_type = "markdown") =>
        SameTexts(BodyPayloads(xml_content), OtherLineTexts(content))

\* The paragraph styles the styles section of a document defines: id and name
DefinedStyles(doc) ==
    { [id |-> doc[i].attrs[1].val, name |-> doc[i].attrs[2].val] :
        i \in {k \in 1..Len(doc) : doc[k].t = "open" /\ doc[k].pfx = "sl"
                                     /\ doc[k].local = "paragraph-style"} }

\* The style each kind of block is written with, and the name that style bears
KindStyle ==
    [ Title |-> [id |-> "paragraph-style-2", name |-> "Title"],
      Heading |-> [id |-> "paragraph-style-1", name |-> "Heading"],
      Body |-> [id |-> "paragraph-style-0", name |-> "Body"],
      BulletItem |-> [id |-> "paragraph-style-0", name |-> "Body"] ]

\* The kind of the block a line of the HTML gives
LineKind(line) ==
    IF StartsWith(line, StartTag(<<"h","1">>)) THEN "Title"
    ELSE IF StartsWith(line, StartTag(<<"h","2">>)) \/ StartsWith(line, StartTag(<<"h","3">>))
    THEN "Heading"
    ELSE IF StartsWith(line, StartTag(<<"l","i">>)) THEN "BulletItem"
    ELSE "Body"

\* The kinds of the blocks of a source, in order: in text mode one per non-empty
\* paragraph, in markdown mode one per line of the HTML that has a character
\* other than white space and angle brackets
BlockKinds(ctype, c) ==
    IF ctype = "text"
    THEN LET ps == SourceParagraphs(c)
         IN [i \in 1..Len(ps) |->
                IF EntirelyUpperCase(ps[i]) /\ Len(ps[i]) < 100 THEN "Heading" ELSE "Body"]
    ELSE LET html == HtmlLines(Markdown(c))
             lines == SelectSeq([i \in 1..Len(html) |-> Strip(html[i])],
                          LAMBDA l : \E k \in 1..Len(l) :
                                        l[k] \notin Whitespace \cup {"<", ">"})
         IN [i \in 1..Len(lines) |-> LineKind(lines[i])]

\* C12: in both modes the document has one paragraph element per block, in block
\* order, whose style is the one of the block's kind (Title: paragraph-style-2,
\* Heading: paragraph-style-1, Body and BulletItem: paragraph-style-0, a
\* BulletItem's text after a bullet glyph), and every style a paragraph refers
\* to is defined, under the kind's name, in the styles section of the document
StyleByKind ==
    xpc = "done" =>
        LET out == ParagraphsOf(xml_content)
            kinds == BlockKinds(content_type, content)
        IN /\ Len(out) = Len(kinds)
           /\ \A i \in 1..Len(kinds) :
                /\ out[i].style = KindStyle[kinds[i]].id
                /\ kinds[i] = "BulletItem" => StartsWith(out[i].payload, BulletGlyph)
                /\ KindStyle[kinds[i]] \in DefinedStyles(xml_content)
           /\ \A i \in 1..Len(out) :
                \E st \in DefinedStyles(xml_content) : st.id = out[i].style
           /\ Cardinality(DefinedStyles(xml_content))
                = Cardinality({st.id : st \in DefinedStyles(xml_content)})

\* A markdown source with a block of every kind has been converted, its title
\* written with paragraph-style-2
StyleByKindEveryKind ==
    /\ xpc = "done" /\ content_type = "markdown"
    /\ {BlockKinds(content_type, content)[i] :
            i \in 1..Len(BlockKinds(content_type, content))}
         = {"Title", "Heading", "Body", "BulletItem"}
    /\ \E i \in 1..Len(ParagraphsOf(xml_content)) :
          ParagraphsOf(xml_content)[i].style = "paragraph-style-2"

\* C9: in both modes the serialized document is well-formed XML: tags nest and
\* close in order, there is one root element, character data is escaped, and
\* every prefix used on an element or attribute is declared
XmlWellFormed == xpc = "done" => WellFormed(xml_content)


----------------------------------------------------------------------------
(* Properties of the converter (Spec) *)

\* The file at o is the archive of a conversion that ended normally
Complete(o) == outfs[o].exists /\ outsrc[o] # ""

\* The member names of the archive at o, in the order they were written
MemberNames(o) == [i \in 1..Len(outfs[o].members) |-> outfs[o].members[i].name]

\* C1: two archives converted from the same input file are the same, byte for
\* byte: same members in the same order, with the same bytes and timestamps
DeterministicArchives ==
    \A o1, o2 \in OutPaths :
        (Complete(o1) /\ Complete(o2) /\ outsrc[o1] = outsrc[o2])
            => outfs[o1].members = outfs[o2].members

\* The bytes of the member paths (ASCII)
PathBytes ==
    [n \in {"QuickLook/Thumbnail.jpg", "buildVersionHistory.plist", "index.xml"} |->
        IF n = "QuickLook/Thumbnail.jpg"
        THEN <<81,117,105,99,107,76,111,111,107,47,84,104,117,109,98,110,97,105,108,
               46,106,112,103>>
        ELSE IF n = "buildVersionHistory.plist"
        THEN <<98,117,105,108,100,86,101,114,115,105,111,110,72,105,115,116,111,114,
               121,46,112,108,105,115,116>>
        ELSE <<105,110,100,101,120,46,120,109,108>>]

RECURSIVE LexLess(_, _)
\* a comes before b in lexicographic order
LexLess(a, b) ==
    IF b = <<>> THEN FALSE
    ELSE IF a = <<>> THEN TRUE
    ELSE IF Head(a) # Head(b) THEN Head(a) < Head(b)
    ELSE LexLess(Tail(a), Tail(b))

\* C2: the members of every archive are written in lexicographic order of
\* their paths
MembersLexicographic ==
    \A o \in OutPaths :
        Complete(o) =>
            \A i, j \in 1..Len(outfs[o].members) :
                i < j => LexLess(PathBytes[MemberNames(o)[i]], PathBytes[MemberNames(o)[j]])

\* C3: the archive of a successful conversion has exactly the three members
\* index.xml, buildVersionHistory.plist and QuickLook/Thumbnail.jpg, each once
\* and nothing else
ExactlyThreeMembers ==
    \A o \in OutPaths :
        Complete(o) =>
            /\ Len(outfs[o].members) = 3
            /\ {MemberNames(o)[i] : i \in 1..Len(outfs[o].members)}
                 = {"index.xml", "buildVersionHistory.plist", "QuickLook/Thumbnail.jpg"}

\* A conversion has returned True and its archive is in place
ArchiveProduced ==
    /\ cpc = "idle" /\ result.value = "True"
    /\ \E o \in OutPaths : Complete(o)

\* C5: batch_convert is never left by an exception, and when it returns it has
\* called convert_file for every file of the directory and counted the calls
\* that succeeded
BatchAggregate ==
    /\ bpc # "raised"
    /\ bpc = "returned" =>
          /\ {p[1] : p \in attempted} = {n \in Glob(files) : IsFile(files, n)}
          /\ converted = Cardinality({p \in attempted : p[2] = "True"})

\* C13: when batch_convert, run into an empty output directory, returns n, exactly
\* n output files exist, and the output of every input it converted holds the
\* conversion of that input: no conversion of the batch has written over the
\* output of another
BatchOutputsDistinct ==
    bpc = "returned" =>
        /\ Cardinality({o \in OutPaths : outfs[o].exists}) = converted
        /\ \A p \in attempted :
              p[2] = "True" => outsrc[WithSuffixPages(p[1])] = p[1]

\* C6: every call of convert_file ends with a return value, True or False,
\* never with an exception
FailuresAreReturnValues == result.value \in {"none", "True", "False"}

\* C10: outside _create_pages_bundle, and so whenever a conversion starts, no
\* scratch directory exists
ScratchReleased == cpc = "idle" => scratch = {}

\* _create_pages_bundle was left by an exception and its scratch directory is gone
ScratchReleasedAfterError ==
    /\ cpc = "idle" /\ scratch = {}
    /\ result.value = "raised"
    /\ result.cause \in {"scratch_write", "mkdir", "zip_open", "zip_write"}

=============================================================================
